---- MODULE Spec2Model ----
(***************************************************************************)
(* Model of analyze_health_data.py: a batch pipeline that loads a CSV of   *)
(* health-sensor readings, computes three column means and three          *)
(* threshold counts, renders a text report and writes it to disk.         *)
(*                                                                         *)
(* Text is modelled by TLA+ strings (concatenation, Len and SubSeq act on  *)
(* them character by character).  A float is modelled by the exact        *)
(* rational num/den it approximates, or NaN.                               *)
(***************************************************************************)
EXTENDS Integers, Sequences, FiniteSets, TLC

(***************************************************************************)
(* State.                                                                  *)
(***************************************************************************)
VARIABLES
    inputFile,       \* the CSV at InFile: whether it exists, and its data rows
    dirs, files,     \* the file system
    pc,              \* main's position
    data, stats, abnormal, total_readings, report,   \* main's locals
    stdout,          \* the lines this run has printed
    error,           \* the exception that ended this run, "none" if none
    runs,            \* how many runs have been started
    steps,           \* history: the steps this run has executed, in order
    faulted,         \* history: the environment injected an I/O fault in this run
    prevOut,         \* history: the output file as the previous run left it
    prevFaulted,     \* history: the previous run suffered an I/O fault
    outBefore,       \* history: the output file when this run started
    call             \* function-level checks: the last call and its result

vars == << inputFile, dirs, files, pc, data, stats, abnormal, total_readings,
           report, stdout, error, runs, steps, faulted, prevOut, prevFaulted,
           outBefore, call >>

(***************************************************************************)
(* Bounds of the model.                                                    *)
(***************************************************************************)
MaxRows == 3        \* a table has 0..MaxRows data rows
MaxRuns == 2        \* the program is run at most MaxRuns times in sequence

(***************************************************************************)
(* Program constants.                                                      *)
(***************************************************************************)
HeartRateThreshold == 90
SystolicThreshold == 130
GlucoseThreshold == 110

InFile == "health_data.csv"
OutFile == "output/analysis_report.txt"

(***************************************************************************)
(* The input: rows of the CSV after the header.  Only the three columns    *)
(* the program reads are kept; the other five are parsed and never used.   *)
(***************************************************************************)
Row(hr, sys, glu) ==
    [heart_rate |-> hr, blood_pressure_systolic |-> sys, glucose_level |-> glu]

Readings ==
    { Row(80, 120, 100), Row(95, 135, 115), Row(100, 128, 90), Row(90, 130, 110) }

Tables == UNION { [1..n -> Readings] : n \in 0..MaxRows }

\* The table of scenario 1 and the one-row table of scenario 2.
Scenario1 == << Row(80, 120, 100), Row(95, 135, 115), Row(100, 128, 90) >>
Scenario2 == << Row(90, 130, 110) >>

(***************************************************************************)
(* load_data: np.genfromtxt skips the header, parses every remaining row   *)
(* and squeezes the result, so a file with exactly one data row yields a   *)
(* 0-dimensional array (ndim = 0) and every other file a 1-dimensional     *)
(* one.  A missing file raises OSError.                                    *)
(***************************************************************************)
load_data(file) ==
    IF ~file.exists
    THEN [ok |-> FALSE, error |-> "OSError",
          data |-> [ndim |-> 1, rows |-> << >>]]
    ELSE [ok |-> TRUE, error |-> "none",
          data |-> [ndim |-> IF Len(file.rows) = 1 THEN 0 ELSE 1,
                    rows |-> file.rows]]

\* data[name]: one column of the structured array.
Column(d, name) == [i \in 1..Len(d.rows) |-> d.rows[i][name]]

(***************************************************************************)
(* Floats.                                                                 *)
(***************************************************************************)
NaN == [nan |-> TRUE, num |-> 0, den |-> 1]
Q(n, d) == [nan |-> FALSE, num |-> n, den |-> d]

RECURSIVE SumSeq(_)
SumSeq(s) == IF s = << >> THEN 0 ELSE s[1] + SumSeq(Tail(s))

\* Faulty variant of Mean: the last row is left out of the sum and the count.
MeanDropsLast(col) ==
    IF Len(col) = 0 THEN NaN
    ELSE IF Len(col) = 1 THEN Q(col[1], 1)
    ELSE Q(SumSeq(SubSeq(col, 1, Len(col) - 1)), Len(col) - 1)

\* Faulty variant of Mean: an empty column averages to 0.0.
MeanZeroOnEmpty(col) ==
    IF Len(col) = 0 THEN Q(0, 1) ELSE Q(SumSeq(col), Len(col))

\* ndarray.mean() of an integer column: float64 sum over the element count;
\* the mean of an empty array is NaN (with a RuntimeWarning, not an error).
Mean(col) ==
    IF Len(col) = 0 THEN NaN ELSE Q(SumSeq(col), Len(col))

calculate_statistics(d) ==
    [avg_heart_rate  |-> Mean(Column(d, "heart_rate")),
     avg_systolic_bp |-> Mean(Column(d, "blood_pressure_systolic")),
     avg_glucose     |-> Mean(Column(d, "glucose_level"))]

(***************************************************************************)
(* find_abnormal_readings: (column > threshold).sum()                      *)
(***************************************************************************)
RECURSIVE CountTrue(_)
CountTrue(bools) ==
    IF bools = << >> THEN 0
    ELSE (IF bools[1] THEN 1 ELSE 0) + CountTrue(Tail(bools))

\* Faulty variant of Exceeds: a value at the threshold counts.
ExceedsOrEquals(col, threshold) == [i \in DOMAIN col |-> col[i] >= threshold]

\* column > threshold: the boolean array.
Exceeds(col, threshold) == [i \in DOMAIN col |-> col[i] > threshold]

\* Faulty variant of find_abnormal_readings: the glucose count reads the
\* systolic column.
find_abnormal_readings_wrong_column(d) ==
    [high_heart_rate |->
        CountTrue(Exceeds(Column(d, "heart_rate"), HeartRateThreshold)),
     high_blood_pressure |->
        CountTrue(Exceeds(Column(d, "blood_pressure_systolic"), SystolicThreshold)),
     high_glucose |->
        CountTrue(Exceeds(Column(d, "blood_pressure_systolic"), GlucoseThreshold))]

find_abnormal_readings(d) ==
    [high_heart_rate |->
        CountTrue(Exceeds(Column(d, "heart_rate"), HeartRateThreshold)),
     high_blood_pressure |->
        CountTrue(Exceeds(Column(d, "blood_pressure_systolic"), SystolicThreshold)),
     high_glucose |->
        CountTrue(Exceeds(Column(d, "glucose_level"), GlucoseThreshold))]

(***************************************************************************)
(* len(data): a 0-dimensional array is unsized and len raises TypeError.   *)
(***************************************************************************)
len(d) ==
    IF d.ndim = 0
    THEN [ok |-> FALSE, error |-> "TypeError", value |-> 0]
    ELSE [ok |-> TRUE, error |-> "none", value |-> Len(d.rows)]

(***************************************************************************)
(* Formatting.                                                             *)
(***************************************************************************)
Digit(d) == SubSeq("0123456789", d + 1, d + 1)

\* str(n) of a non-negative integer.
RECURSIVE IntToStr(_)
IntToStr(n) ==
    IF n < 10 THEN Digit(n) ELSE IntToStr(n \div 10) \o Digit(n % 10)

\* a/b rounded to the nearest integer, ties to even.
RoundHalfEven(a, b) ==
    LET q == a \div b
        r == a % b
    IN  IF 2 * r < b THEN q
        ELSE IF 2 * r > b THEN q + 1
        ELSE IF q % 2 = 0 THEN q ELSE q + 1

\* format(x, '.1f') of a non-negative float.  The float64 nearest to
\* num/den is rounded correctly on its exact binary value; a tie at the
\* second decimal needs 20*num/den to be an odd integer, which for den < 20
\* happens only at quarters, and those are exact in binary, so rounding the
\* rational half-to-even gives the same digits.
FormatF1(x) ==
    IF x.nan THEN "nan"
    ELSE LET t == RoundHalfEven(10 * x.num, x.den)
         IN  IntToStr(t \div 10) \o "." \o Digit(t % 10)

RECURSIVE Join(_, _)
Join(lines, sep) ==
    IF lines = << >> THEN ""
    ELSE IF Len(lines) = 1 THEN lines[1]
    ELSE lines[1] \o sep \o Join(Tail(lines), sep)

ReportLines(st, ab, total) ==
    << "Health Sensor Data Analysis Report",
       "==================================",
       "",
       "Dataset Summary:",
       "- Total readings: " \o IntToStr(total),
       "",
       "Average Measurements:",
       "Heart Rate: " \o FormatF1(st.avg_heart_rate) \o " bpm",
       "Systolic BP: " \o FormatF1(st.avg_systolic_bp) \o " mmHg",
       "Glucose Level: " \o FormatF1(st.avg_glucose) \o " mg/dL",
       "",
       "Abnormal Readings:",
       "High Heart Rate (>90): " \o IntToStr(ab.high_heart_rate) \o " readings",
       "High Blood Pressure (>130): " \o IntToStr(ab.high_blood_pressure)
            \o " readings",
       "High Glucose (>110): " \o IntToStr(ab.high_glucose) \o " readings",
       "" >>

\* Faulty variant of generate_report: the final empty line is not appended.
generate_report_no_final_line(st, ab, total) ==
    LET lines == ReportLines(st, ab, total)
    IN  Join(SubSeq(lines, 1, Len(lines) - 1), "\n")

generate_report(st, ab, total) ==
    Join(ReportLines(st, ab, total), "\n")

(***************************************************************************)
(* The file system: the set of existing directories and, for every path of *)
(* Paths, whether a regular file exists there and what it holds.           *)
(***************************************************************************)
Paths == { OutFile, "a/b/report.txt", "report.txt" }

Absent == [exists |-> FALSE, text |-> ""]
File(text) == [exists |-> TRUE, text |-> text]
Stale == File("old contents\n")

IsFile(name, fs) == name \in DOMAIN fs /\ fs[name].exists

\* The index of the last "/" of s at or before i, 0 if there is none.
RECURSIVE RFind(_, _)
RFind(s, i) ==
    IF i = 0 THEN 0
    ELSE IF SubSeq(s, i, i) = "/" THEN i ELSE RFind(s, i - 1)

RECURSIVE RStripSlash(_)
RStripSlash(s) ==
    IF Len(s) > 0 /\ SubSeq(s, Len(s), Len(s)) = "/"
    THEN RStripSlash(SubSeq(s, 1, Len(s) - 1))
    ELSE s

\* os.path.dirname: everything up to the last "/", trailing slashes
\* stripped unless that is all there is; "" for a bare file name.
dirname(p) ==
    LET head == SubSeq(p, 1, RFind(p, Len(p)))
        stripped == RStripSlash(head)
    IN  IF stripped = "" THEN head ELSE stripped

\* os.makedirs(name, exist_ok=True): creates the missing ancestors, then
\* name itself; an empty name makes mkdir raise FileNotFoundError, and
\* exist_ok forgives only a name that already is a directory.
RECURSIVE makedirs(_, _, _)
makedirs(name, ds, fs) ==
    LET head == dirname(name)
        up == IF head # "" /\ head # name /\ head \notin ds /\ ~IsFile(head, fs)
              THEN makedirs(head, ds, fs)
              ELSE [ok |-> TRUE, error |-> "none", dirs |-> ds]
    IN  IF ~up.ok THEN up
        ELSE IF name = ""
             THEN [ok |-> FALSE, error |-> "FileNotFoundError", dirs |-> up.dirs]
        ELSE IF name \in up.dirs
             THEN [ok |-> TRUE, error |-> "none", dirs |-> up.dirs]
        ELSE IF IsFile(name, fs)
             THEN [ok |-> FALSE, error |-> "FileExistsError", dirs |-> up.dirs]
        ELSE IF head # "" /\ head \notin up.dirs
             THEN [ok |-> FALSE, error |-> "NotADirectoryError", dirs |-> up.dirs]
        ELSE [ok |-> TRUE, error |-> "none", dirs |-> up.dirs \cup {name}]

(***************************************************************************)
(* I/O faults of the environment (permission-denied, disk-full): none, or  *)
(* a failure of mkdir, of open, or of the write that flushes the buffer.   *)
(* A failed write leaves the first cut characters of the text in the file; *)
(* Cuts samples the possible cuts: nothing written, and half of the text.  *)
(***************************************************************************)
Faults == { "none", "makedirs", "open", "write" }
Cuts(text) == { 0, Len(text) \div 2 }

(***************************************************************************)
(* save_report: makedirs on the parent, open(filename, 'w') which creates  *)
(* or truncates the file, write, close.                                    *)
(***************************************************************************)
\* Faulty variant of save_report: the file is opened in append mode.
save_report_append(text, filename, ds, fs, fault, cut) ==
    LET parent == dirname(filename)
        made == IF fault = "makedirs"
                THEN [ok |-> FALSE, error |-> "OSError", dirs |-> ds]
                ELSE makedirs(parent, ds, fs)
    IN  IF ~made.ok
        THEN [ok |-> FALSE, error |-> made.error, dirs |-> made.dirs, files |-> fs]
        ELSE IF fault = "open"
        THEN [ok |-> FALSE, error |-> "OSError", dirs |-> made.dirs, files |-> fs]
        ELSE IF fault = "write"
        THEN [ok |-> FALSE, error |-> "OSError", dirs |-> made.dirs,
              files |-> [fs EXCEPT ![filename] =
                            File(fs[filename].text \o SubSeq(text, 1, cut))]]
        ELSE [ok |-> TRUE, error |-> "none", dirs |-> made.dirs,
              files |-> [fs EXCEPT ![filename] = File(fs[filename].text \o text)]]

save_report(text, filename, ds, fs, fault, cut) ==
    LET parent == dirname(filename)
        made == IF fault = "makedirs"
                THEN [ok |-> FALSE, error |-> "OSError", dirs |-> ds]
                ELSE makedirs(parent, ds, fs)
    IN  IF ~made.ok
        THEN [ok |-> FALSE, error |-> made.error, dirs |-> made.dirs, files |-> fs]
        ELSE IF fault = "open"
        THEN [ok |-> FALSE, error |-> "OSError", dirs |-> made.dirs, files |-> fs]
        ELSE IF fault = "write"
        THEN [ok |-> FALSE, error |-> "OSError", dirs |-> made.dirs,
              files |-> [fs EXCEPT ![filename] = File(SubSeq(text, 1, cut))]]
        ELSE [ok |-> TRUE, error |-> "none", dirs |-> made.dirs,
              files |-> [fs EXCEPT ![filename] = File(text)]]

env == << inputFile, dirs, files >>
locals == << data, stats, abnormal, total_readings, report >>
history == << faulted, prevOut, prevFaulted, outBefore >>

NoData == [ndim |-> 1, rows |-> << >>]
NoStats == [avg_heart_rate |-> NaN, avg_systolic_bp |-> NaN, avg_glucose |-> NaN]
NoAbnormal == [high_heart_rate |-> 0, high_blood_pressure |-> 0, high_glucose |-> 0]
NoCall == [fn |-> "none"]

InputFiles ==
    { [exists |-> FALSE, rows |-> << >>] } \cup { [exists |-> TRUE, rows |-> t] : t \in Tables }

NoFiles == [p \in Paths |-> Absent]

\* What the disk may hold before the first run: no output directory, an
\* empty output directory, or an output file left by something else.
InitialDisks ==
    { [dirs |-> {}, files |-> NoFiles],
      [dirs |-> {"output"}, files |-> NoFiles],
      [dirs |-> {"output"}, files |-> [NoFiles EXCEPT ![OutFile] = Stale]] }

LocalsUnset ==
    /\ data = NoData
    /\ stats = NoStats
    /\ abnormal = NoAbnormal
    /\ total_readings = 0
    /\ report = ""
    /\ stdout = << >>
    /\ error = "none"
    /\ steps = << >>
    /\ faulted = FALSE

Init ==
    /\ inputFile \in InputFiles
    /\ \E d \in InitialDisks : dirs = d.dirs /\ files = d.files
    /\ pc = "start"
    /\ LocalsUnset
    /\ runs = 1
    /\ prevOut = Absent
    /\ prevFaulted = FALSE
    /\ outBefore = files[OutFile]
    /\ call = NoCall

(***************************************************************************)
(* main, one action per statement.                                         *)
(***************************************************************************)
Step(name) == steps' = Append(steps, name)

Load ==
    /\ pc = "start"
    /\ LET r == load_data(inputFile)
       IN  /\ data' = r.data
           /\ error' = r.error
           /\ pc' = IF r.ok THEN "loaded" ELSE "failed"
    /\ Step("load")
    /\ UNCHANGED << env, stats, abnormal, total_readings, report, stdout, runs,
                    history, call >>

Aggregate ==
    /\ pc = "loaded"
    /\ stats' = calculate_statistics(data)
    /\ pc' = "aggregated"
    /\ Step("aggregate")
    /\ UNCHANGED << env, data, abnormal, total_readings, report, stdout, error,
                    runs, history, call >>

Scan ==
    /\ pc = "aggregated"
    /\ abnormal' = find_abnormal_readings(data)
    /\ pc' = "scanned"
    /\ Step("scan")
    /\ UNCHANGED << env, data, stats, total_readings, report, stdout, error,
                    runs, history, call >>

Count ==
    /\ pc = "scanned"
    /\ LET r == len(data)
       IN  /\ total_readings' = r.value
           /\ error' = r.error
           /\ pc' = IF r.ok THEN "counted" ELSE "failed"
    /\ Step("count")
    /\ UNCHANGED << env, data, stats, abnormal, report, stdout, runs, history, call >>

Format ==
    /\ pc = "counted"
    /\ report' = generate_report(stats, abnormal, total_readings)
    /\ pc' = "formatted"
    /\ Step("format")
    /\ UNCHANGED << env, data, stats, abnormal, total_readings, stdout, error,
                    runs, history, call >>

\* Faulty variant of AfterSave: the exception is swallowed.
AfterSaveSwallows(ok) == "saved"

\* An exception of save_report leaves main at once.
AfterSave(ok) == IF ok THEN "saved" ELSE "failed"

Save ==
    /\ pc = "formatted"
    /\ \E fault \in Faults, cut \in Cuts(report) :
         LET r == save_report(report, OutFile, dirs, files, fault, cut)
         IN  /\ dirs' = r.dirs
             /\ files' = r.files
             /\ error' = r.error
             /\ pc' = AfterSave(r.ok)
             /\ faulted' = (fault # "none")
    /\ Step("write")
    /\ UNCHANGED << inputFile, locals, stdout, runs, prevOut, prevFaulted,
                    outBefore, call >>

CompletionLine == "Analysis complete. Report saved to " \o OutFile

Announce ==
    /\ pc = "saved"
    /\ stdout' = Append(stdout, CompletionLine)
    /\ pc' = "done"
    /\ Step("print")
    /\ UNCHANGED << env, locals, error, runs, history, call >>

\* The operator runs the program again: a fresh process, the same disk.
NextRun ==
    /\ pc \in { "done", "failed" }
    /\ runs < MaxRuns
    /\ runs' = runs + 1
    /\ pc' = "start"
    /\ data' = NoData
    /\ stats' = NoStats
    /\ abnormal' = NoAbnormal
    /\ total_readings' = 0
    /\ report' = ""
    /\ stdout' = << >>
    /\ error' = "none"
    /\ steps' = << >>
    /\ faulted' = FALSE
    /\ prevOut' = files[OutFile]
    /\ prevFaulted' = faulted
    /\ outBefore' = files[OutFile]
    /\ UNCHANGED << env, call >>

Next ==
    \/ Load
    \/ Aggregate
    \/ Scan
    \/ Count
    \/ Format
    \/ Save
    \/ Announce
    \/ NextRun

Spec == Init /\ [][Next]_vars

(***************************************************************************)
(* Function-level specifications: the functions are applied to inputs      *)
(* drawn from bounded sets, and call records the last call.  SpecPure      *)
(* applies one of the three pure functions to one input, SpecSave applies  *)
(* save_report to a disk any number of times.                              *)
(***************************************************************************)
\* The arrays a caller may pass: 1-dimensional of any length, and the
\* 0-dimensional one-row array load_data returns for a one-row file.
DataValues ==
    { [ndim |-> 1, rows |-> t] : t \in Tables }
        \cup { [ndim |-> 0, rows |-> t] : t \in { u \in Tables : Len(u) = 1 } }

StatsSamples ==
    { calculate_statistics(d) : d \in DataValues }
        \cup { [avg_heart_rate |-> Q(361, 4), avg_systolic_bp |-> Q(363, 4),
                avg_glucose |-> Q(1999, 2)] }

AbnormalSamples ==
    { [high_heart_rate |-> 0, high_blood_pressure |-> 0, high_glucose |-> 0],
      [high_heart_rate |-> 2, high_blood_pressure |-> 1, high_glucose |-> 1],
      [high_heart_rate |-> 10, high_blood_pressure |-> 0, high_glucose |-> 123] }

TotalSamples == { 0, 1, 3, 12, 100 }

Idle ==
    /\ inputFile = [exists |-> FALSE, rows |-> << >>]
    /\ pc = "idle"
    /\ LocalsUnset
    /\ runs = 0
    /\ prevOut = Absent
    /\ prevFaulted = FALSE
    /\ outBefore = Absent
    /\ call = NoCall

pipeline == << inputFile, pc, locals, stdout, error, runs, steps, history >>

InitPure ==
    /\ Idle
    /\ dirs = {}
    /\ files = NoFiles

CallCalculateStatistics ==
    /\ call = NoCall
    /\ \E d \in DataValues :
         call' = [fn |-> "calculate_statistics", data |-> d,
                  result |-> calculate_statistics(d)]
    /\ UNCHANGED << pipeline, dirs, files >>

CallFindAbnormalReadings ==
    /\ call = NoCall
    /\ \E d \in DataValues :
         call' = [fn |-> "find_abnormal_readings", data |-> d,
                  result |-> find_abnormal_readings(d)]
    /\ UNCHANGED << pipeline, dirs, files >>

CallGenerateReport ==
    /\ call = NoCall
    /\ \E st \in StatsSamples, ab \in AbnormalSamples, total \in TotalSamples :
         call' = [fn |-> "generate_report", stats |-> st, abnormal |-> ab,
                  total_readings |-> total,
                  result |-> generate_report(st, ab, total)]
    /\ UNCHANGED << pipeline, dirs, files >>

NextPure ==
    \/ CallCalculateStatistics
    \/ CallFindAbnormalReadings
    \/ CallGenerateReport

SpecPure == InitPure /\ [][NextPure]_vars

\* Disks save_report may find: directories closed under parent, and a file
\* only where its directory exists (the working directory always does).
SaveDisks ==
    { [dirs |-> ds, files |-> [p \in Paths |-> IF p \in old THEN Stale ELSE Absent]] :
        ds \in { {}, {"output"}, {"a"}, {"a", "a/b"}, {"output", "a", "a/b"} },
        old \in SUBSET Paths }

ReportSamples ==
    { "x\n",
      generate_report(calculate_statistics([ndim |-> 1, rows |-> Scenario1]),
                      find_abnormal_readings([ndim |-> 1, rows |-> Scenario1]), 3) }

InitSave ==
    /\ Idle
    /\ \E d \in SaveDisks :
         /\ \A p \in Paths :
              d.files[p].exists => dirname(p) = "" \/ dirname(p) \in d.dirs
         /\ dirs = d.dirs
         /\ files = d.files

CallSaveReport ==
    /\ \E text \in ReportSamples, filename \in Paths, fault \in Faults :
       \E cut \in Cuts(text) :
         LET r == save_report(text, filename, dirs, files, fault, cut)
         IN  /\ dirs' = r.dirs
             /\ files' = r.files
             /\ call' = [fn |-> "save_report", report |-> text,
                         filename |-> filename, fault |-> fault,
                         ok |-> r.ok, error |-> r.error]
    /\ UNCHANGED pipeline

NextSave == CallSaveReport

SpecSave == InitSave /\ [][NextSave]_vars

(***************************************************************************)
(* Properties.                                                             *)
(***************************************************************************)
\* text holds sub somewhere.
Contains(text, sub) ==
    \E i \in 1..(Len(text) - Len(sub) + 1) : SubSeq(text, i, i + Len(sub) - 1) = sub

EndsWith(text, sub) ==
    /\ Len(text) >= Len(sub)
    /\ SubSeq(text, Len(text) - Len(sub) + 1, Len(text)) = sub

\* How many rows satisfy a test on one column, counted as a set of indices.
RowsAbove(rows, name, threshold) ==
    Cardinality({ i \in 1..Len(rows) : rows[i][name] > threshold })

RowsAtOrBelow(rows, name, threshold) ==
    Cardinality({ i \in 1..Len(rows) : rows[i][name] <= threshold })

\* The sum of one column, accumulated from the first row on.
ColumnTotal(rows, name) ==
    LET total[k \in 0..Len(rows)] ==
            IF k = 0 THEN 0 ELSE total[k - 1] + rows[k][name]
    IN  total[Len(rows)]

ThreeCounts == { "high_heart_rate", "high_blood_pressure", "high_glucose" }
ThreeMeans == { "avg_heart_rate", "avg_systolic_bp", "avg_glucose" }

\* C1: for every table find_abnormal_readings returns exactly the three
\* entries high_heart_rate, high_blood_pressure and high_glucose, each the
\* number of rows strictly above 90, 130 and 110 in its column; a row at
\* the threshold is not counted (scenario 2 gives 0, 0, 0 and scenario 1
\* gives 2, 1, 1).
C1_AbnormalCountsStrict ==
    call.fn = "find_abnormal_readings" =>
        LET rows == call.data.rows
            r == call.result
        IN  /\ DOMAIN r = ThreeCounts
            /\ r.high_heart_rate = RowsAbove(rows, "heart_rate", 90)
            /\ r.high_blood_pressure = RowsAbove(rows, "blood_pressure_systolic", 130)
            /\ r.high_glucose = RowsAbove(rows, "glucose_level", 110)
            /\ rows = Scenario2 =>
                 r.high_heart_rate = 0 /\ r.high_blood_pressure = 0 /\ r.high_glucose = 0
            /\ rows = Scenario1 =>
                 r.high_heart_rate = 2 /\ r.high_blood_pressure = 1 /\ r.high_glucose = 1

\* A one-row table with every value at its threshold has been scanned.
C1_Witness ==
    /\ call.fn = "find_abnormal_readings"
    /\ call.data.rows = Scenario2
    /\ call.result.high_heart_rate = 0

\* C2: for every non-empty table calculate_statistics returns exactly the
\* three entries avg_heart_rate, avg_systolic_bp and avg_glucose, each the
\* sum of its whole column divided by the row count; on scenario 1 they
\* show as 91.7, 127.7 and 101.7.
C2_MeansOverAllRows ==
    (call.fn = "calculate_statistics" /\ Len(call.data.rows) > 0) =>
        LET rows == call.data.rows
            r == call.result
            IsMean(x, name) ==
                /\ ~x.nan
                /\ x.den > 0
                /\ x.num * Len(rows) = x.den * ColumnTotal(rows, name)
        IN  /\ DOMAIN r = ThreeMeans
            /\ IsMean(r.avg_heart_rate, "heart_rate")
            /\ IsMean(r.avg_systolic_bp, "blood_pressure_systolic")
            /\ IsMean(r.avg_glucose, "glucose_level")
            /\ rows = Scenario1 =>
                 /\ FormatF1(r.avg_heart_rate) = "91.7"
                 /\ FormatF1(r.avg_systolic_bp) = "127.7"
                 /\ FormatF1(r.avg_glucose) = "101.7"

\* The means of scenario 1 have been computed.
C2_Witness ==
    /\ call.fn = "calculate_statistics"
    /\ call.data.rows = Scenario1
    /\ call.result.avg_heart_rate = Q(275, 3)

\* C3: for every Statistics, AbnormalCounts and total_readings >= 0 the
\* text generate_report returns is the fixed template, character for
\* character: title, rule, blank, 'Dataset Summary:', the total line,
\* blank, 'Average Measurements:', the three averages with one decimal,
\* blank, 'Abnormal Readings:', the three counts as plain integers, and a
\* final empty line, so that the text ends with the newline that follows
\* the 'High Glucose' line.
C3_ReportMatchesTemplate ==
    call.fn = "generate_report" =>
        LET st == call.stats
            ab == call.abnormal
            text == call.result
        IN  /\ text =
                  "Health Sensor Data Analysis Report\n"
                  \o "==================================\n"
                  \o "\n"
                  \o "Dataset Summary:\n"
                  \o "- Total readings: " \o IntToStr(call.total_readings) \o "\n"
                  \o "\n"
                  \o "Average Measurements:\n"
                  \o "Heart Rate: " \o FormatF1(st.avg_heart_rate) \o " bpm\n"
                  \o "Systolic BP: " \o FormatF1(st.avg_systolic_bp) \o " mmHg\n"
                  \o "Glucose Level: " \o FormatF1(st.avg_glucose) \o " mg/dL\n"
                  \o "\n"
                  \o "Abnormal Readings:\n"
                  \o "High Heart Rate (>90): " \o IntToStr(ab.high_heart_rate)
                  \o " readings\n"
                  \o "High Blood Pressure (>130): " \o IntToStr(ab.high_blood_pressure)
                  \o " readings\n"
                  \o "High Glucose (>110): " \o IntToStr(ab.high_glucose)
                  \o " readings\n"
            /\ EndsWith(text, " readings\n")
            /\ ~EndsWith(text, "\n\n")
            /\ call.total_readings = 12 => Contains(text, "\n- Total readings: 12\n")
            /\ call.total_readings = 100 => Contains(text, "\n- Total readings: 100\n")
            /\ ab.high_glucose = 123 => Contains(text, "\nHigh Glucose (>110): 123 readings\n")
            /\ st.avg_heart_rate = Q(361, 4) => Contains(text, "\nHeart Rate: 90.2 bpm\n")
            /\ st.avg_systolic_bp = Q(363, 4) => Contains(text, "\nSystolic BP: 90.8 mmHg\n")
            /\ st.avg_glucose = Q(1999, 2) => Contains(text, "\nGlucose Level: 999.5 mg/dL\n")
            /\ st.avg_glucose = NaN => Contains(text, "\nGlucose Level: nan mg/dL\n")

\* A report with multi-digit numbers and a rounded average has been rendered.
C3_Witness ==
    /\ call.fn = "generate_report"
    /\ call.total_readings = 12
    /\ call.abnormal.high_glucose = 123
    /\ call.stats.avg_heart_rate = Q(361, 4)
    /\ EndsWith(call.result, "High Glucose (>110): 123 readings\n")

\* C4: for every output path, a save_report that meets no I/O fault leaves
\* the parent directories existing and the file at that path holding exactly
\* the report text, whether the parent directory existed, was absent, or the
\* path has no directory component.
C4_SaveReportWritesFile ==
    (call.fn = "save_report" /\ call.fault = "none") =>
        /\ call.ok
        /\ files[call.filename] = File(call.report)
        /\ dirname(call.filename) # "" => dirname(call.filename) \in dirs

\* C5: after a run that failed, in loading or in writing, the output file
\* does not exist, or is what it was before the run, or holds the complete
\* report; and a run whose input file is missing leaves the output file
\* and the directories as they were.
C5_NoPartialReport ==
    pc = "failed" =>
        /\ \/ ~files[OutFile].exists
           \/ files[OutFile] = outBefore
           \/ files[OutFile] = File(report)
        /\ ~inputFile.exists => files[OutFile] = outBefore

\* C6: every run on an existing input file with n data rows that meets no
\* I/O fault ends with total_readings = n passed to the formatter and the
\* line '- Total readings: n' in the report, for every n >= 0.
C6_TotalReadingsIsRowCount ==
    (pc \in { "done", "failed" } /\ inputFile.exists /\ ~faulted) =>
        /\ pc = "done"
        /\ total_readings = Len(inputFile.rows)
        /\ Contains(files[OutFile].text,
                    "\n- Total readings: " \o IntToStr(Len(inputFile.rows)) \o "\n")

\* C7: on an empty table calculate_statistics returns NaN for each of the
\* three means, never a finite number, and the report the pipeline writes
\* for an empty dataset shows nan for every average.
C7_EmptyTableMeansAreNaN ==
    (inputFile.exists /\ inputFile.rows = << >>) =>
        /\ pc \notin { "start", "loaded" } =>
             /\ stats.avg_heart_rate.nan
             /\ stats.avg_systolic_bp.nan
             /\ stats.avg_glucose.nan
        /\ pc = "done" =>
             Contains(files[OutFile].text,
                      "\nHeart Rate: nan bpm\nSystolic BP: nan mmHg\nGlucose Level: nan mg/dL\n")

\* A run on a header-only file has written its report.
C7_Witness ==
    /\ inputFile.exists
    /\ inputFile.rows = << >>
    /\ pc = "done"
    /\ "aggregate" = steps[2]
    /\ Contains(files[OutFile].text, "Heart Rate: nan bpm")

\* C8: two runs in sequence on the unchanged input, neither meeting an I/O
\* fault, leave the same output file: the second run's file is identical
\* to the first run's; and a completed run leaves exactly its report,
\* whatever the file held before.
C8_SecondRunIdentical ==
    /\ (runs >= 2 /\ pc \in { "done", "failed" } /\ ~faulted /\ ~prevFaulted) =>
           files[OutFile] = prevOut
    /\ pc = "done" => files[OutFile] = File(report)

\* A second run has completed and overwritten the first run's report.
C8_Witness ==
    /\ runs = 2
    /\ pc = "done"
    /\ ~prevFaulted
    /\ prevOut.exists
    /\ Len(prevOut.text) > 100
    /\ files[OutFile] = prevOut

\* C9: for every table each abnormal count plus the number of rows at or
\* below its threshold equals the table length, so every count lies in
\* 0..length.
C9_CountConservation ==
    call.fn = "find_abnormal_readings" =>
        LET rows == call.data.rows
            r == call.result
            n == Len(rows)
        IN  /\ r.high_heart_rate + RowsAtOrBelow(rows, "heart_rate", 90) = n
            /\ r.high_blood_pressure
                 + RowsAtOrBelow(rows, "blood_pressure_systolic", 130) = n
            /\ r.high_glucose + RowsAtOrBelow(rows, "glucose_level", 110) = n
            /\ \A k \in ThreeCounts : r[k] \in 0..n

\* A table with rows above, at and below the thresholds has been scanned.
C9_Witness ==
    /\ call.fn = "find_abnormal_readings"
    /\ Len(call.data.rows) = 3
    /\ call.data.rows[1] = Row(90, 130, 110)
    /\ call.result.high_heart_rate = 2
    /\ call.result.high_glucose = 1

StepOrder == << "load", "aggregate", "scan", "count", "format", "write", "print" >>

\* C10: in every run the steps happen in the order load, Aggregator,
\* Scanner, row count, Formatter, Writer, completion message; the completion
\* line is printed at most once, only when the Writer has written the full
\* report, and never in a run where loading or writing failed.
C10_OrderAndCompletion ==
    /\ Len(steps) <= Len(StepOrder)
    /\ steps = SubSeq(StepOrder, 1, Len(steps))
    /\ Len(stdout) <= 1
    /\ stdout # << >> =>
         /\ stdout = << "Analysis complete. Report saved to output/analysis_report.txt" >>
         /\ steps = StepOrder
         /\ pc = "done"
         /\ error = "none"
         /\ ~faulted
         /\ files[OutFile] = File(report)
    /\ pc = "failed" => stdout = << >>
    /\ pc = "done" => Len(stdout) = 1

\* A run has completed and printed its line after a run that failed in writing.
C10_Witness ==
    /\ pc = "done"
    /\ Len(stdout) = 1
    /\ runs = 2
    /\ prevFaulted

====
